---- MODULE Spec2Model ----
(***************************************************************************)
(* Model of btgym/research/gps/aac.py: class GuidedAAC(BaseAAC).           *)
(*                                                                         *)
(* GuidedAAC.__init__ stores three attributes, runs the base constructor   *)
(* inside a bare try/except and wraps any failure in a RuntimeError.       *)
(* GuidedAAC._make_loss composes the base actor-critic loss with the       *)
(* expert imitation loss and logs the two weights.                         *)
(*                                                                         *)
(* Numbers.  The two lambdas are decimal fixed-point numbers counted in    *)
(* units of 10^-(FracDigits+1), one digit finer than the '{:1.6f}' format  *)
(* of line 91 prints, so that the formatting is a real conversion.  Loss   *)
(* values are integers; the composed loss is counted in lambda units.      *)
(***************************************************************************)
EXTENDS Integers, Sequences, FiniteSets, TLC

VARIABLES
    pc,             \* position of the single thread of control
    given,          \* names of the keyword arguments the caller passed
    argExpert,      \* parameter expert_loss as bound by the signature
    argAac,         \* parameter aac_lambda as bound by the signature
    argGuided,      \* parameter guided_lambda as bound by the signature
    attrs,          \* names of the instance attributes that exist on self
    expert_loss,    \* self.expert_loss
    aac_lambda,     \* self.aac_lambda
    guided_lambda,  \* self.guided_lambda
    logRecords,     \* records emitted through self.log, oldest first
    exc,            \* exception in flight inside __init__'s try block
    escaped,        \* what __init__ raised to its caller
    caller,         \* who called _make_loss: "ctor", "direct" or "none"
    calls,          \* number of _make_loss calls started so far
    aac_loss,       \* local aac_loss of _make_loss
    summaries,      \* the list object bound to local summaries
    baseReturned,   \* value of that list when _make_base_loss returned it
    guided_loss,    \* local guided_loss
    guided_summary, \* local guided_summary
    loss,           \* local loss
    baseCalls,      \* _make_base_loss invocations in the current call
    expertCalls,    \* expert_loss invocations in the current call
    logAtEntry,     \* Len(logRecords) when the current call started
    raised,         \* exception as raised inside the current call
    result          \* outcome of the current / last _make_loss call

vars == <<pc, given, argExpert, argAac, argGuided, attrs, expert_loss,
          aac_lambda, guided_lambda, logRecords, exc, escaped, caller, calls,
          aac_loss, summaries, baseReturned, guided_loss, guided_summary,
          loss, baseCalls, expertCalls, logAtEntry, raised, result>>

ctorVars == <<given, argExpert, argAac, argGuided>>
selfVars == <<attrs, expert_loss, aac_lambda, guided_lambda>>
localVars == <<aac_loss, summaries, baseReturned, guided_loss,
               guided_summary, loss>>
countVars == <<baseCalls, expertCalls, logAtEntry>>

----------------------------------------------------------------------------
(* Bounds *)

MaxLoss == 1
MaxSummaries == 2
MaxCalls == 2

----------------------------------------------------------------------------
(* Values *)

FracDigits == 6

RECURSIVE Pow10(_)
Pow10(n) == IF n = 0 THEN 1 ELSE 10 * Pow10(n - 1)

LambdaOne == Pow10(FracDigits + 1)

DefaultLambda == LambdaOne

DefaultExpertLoss == "guided_aac_loss_def_0_3"

ParamNames == {"expert_loss", "aac_lambda", "guided_lambda"}

Lambdas == {0, 3, 7, LambdaOne}

ExpertFns == {"guided_aac_loss_def_0_3", "guided_aac_loss_def_0_1",
              "raising_loss"}

AlwaysRaises(f) == f = "raising_loss"

Losses == 0 .. MaxLoss

SummaryTags == {"s1", "s2"}

SummaryLists ==
    UNION {[1..n -> SummaryTags] : n \in 0..MaxSummaries}

ExceptionTypes == {"ValueError", "KeyboardInterrupt"}

NoExc == [type |-> "none", origin |-> "none"]

LocalNetwork ==
    [on_logits      |-> "tensor_on_logits",
     expert_actions |-> "tensor_expert_actions",
     off_logits     |-> "tensor_off_logits"]

\* The message of lines 67-68; its two backquotes are written as apostrophes.
FixedMsg ==
    "GuidedAAC.__init()__ exception occurred\n\nPress 'Ctrl-C' or jupyter:[Kernel]->[Interrupt] for clean exit.\n"

NoticeText == "aac_lambda: {:1.6f}, guided_lambda: {:1.6f}"

NoResult == [kind |-> "none", loss |-> 0, summaries |-> <<>>, exc |-> NoExc]

----------------------------------------------------------------------------
(* Pure helpers *)

\* '{:1.6f}'.format(x), line 91: x rounded to FracDigits fractional digits,
\* ties to even, printed as integer part and fractional digits.
Format(x) ==
    LET q == x \div 10
        r == x % 10
        up == (r > 5) \/ (r = 5 /\ q % 2 = 1)
        n == IF up THEN q + 1 ELSE q
    IN  [int |-> n \div Pow10(FracDigits), frac |-> n % Pow10(FracDigits)]

\* The number a printed value denotes, in lambda units.
Parse(f) == (f.int * Pow10(FracDigits) + f.frac) * 10

\* Variant of ComposeLoss with the two weights exchanged.
ComposeLossSwapped(a, b, l, g) == a * g + l * b

\* Variant of ComposeLoss that leaves the base loss unweighted.
ComposeLossUnweighted(a, b, l, g) == b + l * g

\* Line 88.
ComposeLoss(a, b, l, g) == a * b + l * g

\* Variant of ExtendList that puts the expert summaries first.
ExtendListPrepend(s, t) == t \o s

\* Line 89: list += list extends the left list in place.
ExtendList(s, t) == s \o t

\* Variant of ExpertCallArgs that calls the default loss, not the stored one.
ExpertCallArgsDefaultFn ==
    [fn             |-> DefaultExpertLoss,
     pi_actions     |-> LocalNetwork.on_logits,
     expert_actions |-> LocalNetwork.expert_actions,
     name           |-> "on_policy",
     verbose        |-> TRUE]

\* Lines 82-87: the keyword arguments of the expert-loss call.
ExpertCallArgs ==
    [fn             |-> expert_loss,
     pi_actions     |-> LocalNetwork.on_logits,
     expert_actions |-> LocalNetwork.expert_actions,
     name           |-> "on_policy",
     verbose        |-> TRUE]

\* Variant of Propagate: _make_loss catches and wraps what its callees raise.
PropagateWrapped(e) == [type |-> "RuntimeError", origin |-> "_make_loss"]

\* Lines 72-93 hold no try statement: an exception raised by a callee leaves
\* _make_loss as the object it was raised as.
Propagate(e) == e

\* Variant of HandlerCatches: "except Exception:" lets interrupts through.
HandlerCatchesExceptionOnly(e) == e.type # "KeyboardInterrupt"

\* Line 66: a bare except clause matches every exception, BaseException too.
HandlerCatches(e) == TRUE

\* Lines 37-39 and 55-57: parameter values as the signature binds them and
\* as the constructor stores them.
BoundParams(g, e, a, l) ==
    [expert_loss   |-> IF "expert_loss" \in g THEN e ELSE DefaultExpertLoss,
     aac_lambda    |-> IF "aac_lambda" \in g THEN a ELSE DefaultLambda,
     guided_lambda |-> IF "guided_lambda" \in g THEN l ELSE DefaultLambda]

\* Variant of StoredAttrs with the two lambdas stored crosswise.
StoredAttrsSwapped ==
    [expert_loss   |-> argExpert,
     aac_lambda    |-> argGuided,
     guided_lambda |-> argAac]

StoredAttrs ==
    [expert_loss   |-> argExpert,
     aac_lambda    |-> argAac,
     guided_lambda |-> argGuided]

\* Variant of NoticeRecord with the two format arguments exchanged.
NoticeRecordSwapped ==
    [level    |-> "notice",
     text     |-> NoticeText,
     args     |-> <<Format(guided_lambda), Format(aac_lambda)>>,
     exc_info |-> NoExc]

\* Line 91: the record handed to self.log.notice.
NoticeRecord ==
    [level    |-> "notice",
     text     |-> NoticeText,
     args     |-> <<Format(aac_lambda), Format(guided_lambda)>>,
     exc_info |-> NoExc]

\* Line 69: self.log.exception(msg) records msg with the exception being
\* handled.
ExceptionRecord ==
    [level    |-> "exception",
     text     |-> FixedMsg,
     args     |-> <<>>,
     exc_info |-> exc]

InMakeLoss == pc \in {"line80", "line82", "line88", "line91", "line93"}

----------------------------------------------------------------------------
(* Initial state: a GuidedAAC(...) call whose arguments are bound, before   *)
(* the first statement of __init__.                                        *)

Init ==
    /\ pc = "new"
    /\ given \in SUBSET ParamNames
    /\ \E e \in ExpertFns, a \in Lambdas, l \in Lambdas :
          LET p == BoundParams(given, e, a, l) IN
          /\ argExpert = p.expert_loss
          /\ argAac = p.aac_lambda
          /\ argGuided = p.guided_lambda
    /\ attrs = {}
    /\ expert_loss = "unset"
    /\ aac_lambda = 0
    /\ guided_lambda = 0
    /\ logRecords = <<>>
    /\ exc = NoExc
    /\ escaped = [type |-> "none", msg |-> ""]
    /\ caller = "none"
    /\ calls = 0
    /\ aac_loss = 0
    /\ summaries = <<>>
    /\ baseReturned = <<>>
    /\ guided_loss = 0
    /\ guided_summary = <<>>
    /\ loss = 0
    /\ baseCalls = 0
    /\ expertCalls = <<>>
    /\ logAtEntry = 0
    /\ raised = NoExc
    /\ result = NoResult

----------------------------------------------------------------------------
(* GuidedAAC.__init__ *)

\* Lines 55-57, then entry into the base constructor (line 59).
InitStore ==
    /\ pc = "new"
    /\ pc' = "super_init"
    /\ attrs' = attrs \cup {"expert_loss", "aac_lambda", "guided_lambda"}
    /\ expert_loss' = StoredAttrs.expert_loss
    /\ aac_lambda' = StoredAttrs.aac_lambda
    /\ guided_lambda' = StoredAttrs.guided_lambda
    /\ UNCHANGED <<ctorVars, logRecords, exc, escaped, caller, calls,
                   localVars, countVars, raised, result>>

\* The base constructor fails before it has created self.log (for example
\* a TypeError while binding its own arguments).
BaseInitRaiseEarly(t) ==
    /\ pc = "super_init"
    /\ pc' = "except"
    /\ exc' = [type |-> t, origin |-> "base_init_early"]
    /\ UNCHANGED <<ctorVars, selfVars, logRecords, escaped, caller, calls,
                   localVars, countVars, raised, result>>

\* The base constructor creates the logger.
BaseInitSetLog ==
    /\ pc = "super_init"
    /\ pc' = "base_setup"
    /\ attrs' = attrs \cup {"log"}
    /\ UNCHANGED <<ctorVars, expert_loss, aac_lambda, guided_lambda,
                   logRecords, exc, escaped, caller, calls, localVars,
                   countVars, raised, result>>

\* The base constructor fails by itself, before or after building the loss.
BaseInitRaise(t) ==
    /\ pc \in {"base_setup", "base_finish"}
    /\ pc' = "except"
    /\ exc' = [type |-> t, origin |-> "base_init"]
    /\ UNCHANGED <<ctorVars, selfVars, logRecords, escaped, caller, calls,
                   localVars, countVars, raised, result>>

\* Entry into _make_loss: fresh locals.
EnterMakeLoss(who) ==
    /\ pc' = "line80"
    /\ caller' = who
    /\ calls' = calls + 1
    /\ aac_loss' = 0
    /\ summaries' = <<>>
    /\ baseReturned' = <<>>
    /\ guided_loss' = 0
    /\ guided_summary' = <<>>
    /\ loss' = 0
    /\ baseCalls' = 0
    /\ expertCalls' = <<>>
    /\ logAtEntry' = Len(logRecords)
    /\ raised' = NoExc
    /\ result' = NoResult
    /\ UNCHANGED <<ctorVars, selfVars, logRecords, exc, escaped>>

\* The base trainer's setup phase calls self._make_loss().
BaseSetupMakeLoss ==
    /\ pc = "base_setup"
    /\ calls < MaxCalls
    /\ EnterMakeLoss("ctor")

\* The setup phase gets the outcome of _make_loss: a pair, or an exception
\* that travels on through the base constructor into line 66.
BaseSetupReceives ==
    /\ pc = "ml_exit"
    /\ caller = "ctor"
    /\ IF result.kind = "raise"
         THEN pc' = "except" /\ exc' = result.exc
         ELSE pc' = "base_finish" /\ exc' = exc
    /\ UNCHANGED <<ctorVars, selfVars, logRecords, escaped, caller, calls,
                   localVars, countVars, raised, result>>

\* The base constructor returns; so does line 59 and __init__.
BaseInitReturn ==
    /\ pc = "base_finish"
    /\ pc' = "constructed"
    /\ UNCHANGED <<ctorVars, selfVars, logRecords, exc, escaped, caller,
                   calls, localVars, countVars, raised, result>>

\* Lines 66-69.  Without a log attribute, evaluating self.log raises
\* AttributeError out of the handler and out of __init__.
ExceptLog ==
    /\ pc = "except"
    /\ IF ~HandlerCatches(exc)
         THEN /\ pc' = "ctor_failed"
              /\ escaped' = [type |-> exc.type, msg |-> ""]
              /\ logRecords' = logRecords
         ELSE IF "log" \in attrs
         THEN /\ pc' = "line70"
              /\ logRecords' = Append(logRecords, ExceptionRecord)
              /\ escaped' = escaped
         ELSE /\ pc' = "ctor_failed"
              /\ escaped' = [type |-> "AttributeError", msg |-> "log"]
              /\ logRecords' = logRecords
    /\ UNCHANGED <<ctorVars, selfVars, exc, caller, calls, localVars,
                   countVars, raised, result>>

\* Line 70.
ExceptRaise ==
    /\ pc = "line70"
    /\ pc' = "ctor_failed"
    /\ escaped' = [type |-> "RuntimeError", msg |-> FixedMsg]
    /\ UNCHANGED <<ctorVars, selfVars, logRecords, exc, caller, calls,
                   localVars, countVars, raised, result>>

----------------------------------------------------------------------------
(* GuidedAAC._make_loss *)

\* A caller other than the constructor calls _make_loss on the built object.
DirectCall ==
    /\ pc = "constructed"
    /\ calls < MaxCalls
    /\ EnterMakeLoss("direct")

DirectReceives ==
    /\ pc = "ml_exit"
    /\ caller = "direct"
    /\ pc' = "constructed"
    /\ UNCHANGED <<ctorVars, selfVars, logRecords, exc, escaped, caller,
                   calls, localVars, countVars, raised, result>>

\* Line 80, _make_base_loss returns (b, s).
BaseLossReturn(b, s) ==
    /\ pc = "line80"
    /\ pc' = "line82"
    /\ baseCalls' = baseCalls + 1
    /\ aac_loss' = b
    /\ summaries' = s
    /\ baseReturned' = s
    /\ UNCHANGED <<ctorVars, selfVars, logRecords, exc, escaped, caller,
                   calls, guided_loss, guided_summary, loss, expertCalls,
                   logAtEntry, raised, result>>

\* Line 80, _make_base_loss raises.
BaseLossRaise(t) ==
    /\ pc = "line80"
    /\ pc' = "ml_exit"
    /\ baseCalls' = baseCalls + 1
    /\ raised' = [type |-> t, origin |-> "base_loss"]
    /\ result' = [NoResult EXCEPT !.kind = "raise", !.exc = Propagate(raised')]
    /\ UNCHANGED <<ctorVars, selfVars, logRecords, exc, escaped, caller,
                   calls, localVars, expertCalls, logAtEntry>>

\* Lines 82-87, self.expert_loss(...) returns (g, s).
ExpertLossReturn(g, s) ==
    /\ pc = "line82"
    /\ ~AlwaysRaises(ExpertCallArgs.fn)
    /\ pc' = "line88"
    /\ expertCalls' = Append(expertCalls, ExpertCallArgs)
    /\ guided_loss' = g
    /\ guided_summary' = s
    /\ UNCHANGED <<ctorVars, selfVars, logRecords, exc, escaped, caller,
                   calls, aac_loss, summaries, baseReturned, loss, baseCalls,
                   logAtEntry, raised, result>>

\* Variant of ExpertLossRaise for a _make_loss that extends the summaries and
\* logs the weights before it calls the expert loss.
ExpertLossRaiseAfterLog(t) ==
    /\ pc = "line82"
    /\ pc' = "ml_exit"
    /\ expertCalls' = Append(expertCalls, ExpertCallArgs)
    /\ logRecords' = Append(logRecords, NoticeRecord)
    /\ raised' = [type |-> t, origin |-> "expert_loss"]
    /\ result' = [NoResult EXCEPT !.kind = "raise", !.exc = Propagate(raised')]
    /\ UNCHANGED <<ctorVars, selfVars, exc, escaped, caller, calls,
                   localVars, baseCalls, logAtEntry>>

\* Lines 82-87, self.expert_loss(...) raises.
ExpertLossRaise(t) ==
    /\ pc = "line82"
    /\ pc' = "ml_exit"
    /\ expertCalls' = Append(expertCalls, ExpertCallArgs)
    /\ raised' = [type |-> t, origin |-> "expert_loss"]
    /\ result' = [NoResult EXCEPT !.kind = "raise", !.exc = Propagate(raised')]
    /\ UNCHANGED <<ctorVars, selfVars, logRecords, exc, escaped, caller,
                   calls, localVars, baseCalls, logAtEntry>>

\* Lines 88-89.
Combine ==
    /\ pc = "line88"
    /\ pc' = "line91"
    /\ loss' = ComposeLoss(aac_lambda, aac_loss, guided_lambda, guided_loss)
    /\ summaries' = ExtendList(summaries, guided_summary)
    /\ UNCHANGED <<ctorVars, selfVars, logRecords, exc, escaped, caller,
                   calls, aac_loss, baseReturned, guided_loss, guided_summary,
                   countVars, raised, result>>

\* Line 91.
LogNotice ==
    /\ pc = "line91"
    /\ pc' = "line93"
    /\ logRecords' = Append(logRecords, NoticeRecord)
    /\ UNCHANGED <<ctorVars, selfVars, exc, escaped, caller, calls,
                   localVars, countVars, raised, result>>

\* Line 93.
Return ==
    /\ pc = "line93"
    /\ pc' = "ml_exit"
    /\ result' = [kind |-> "return", loss |-> loss, summaries |-> summaries,
                  exc |-> NoExc]
    /\ UNCHANGED <<ctorVars, selfVars, logRecords, exc, escaped, caller,
                   calls, localVars, countVars, raised>>

----------------------------------------------------------------------------

Next ==
    \/ InitStore
    \/ \E t \in ExceptionTypes : BaseInitRaiseEarly(t)
    \/ BaseInitSetLog
    \/ \E t \in ExceptionTypes : BaseInitRaise(t)
    \/ BaseSetupMakeLoss
    \/ BaseSetupReceives
    \/ BaseInitReturn
    \/ ExceptLog
    \/ ExceptRaise
    \/ DirectCall
    \/ DirectReceives
    \/ \E b \in Losses, s \in SummaryLists : BaseLossReturn(b, s)
    \/ \E t \in ExceptionTypes : BaseLossRaise(t)
    \/ \E g \in Losses, s \in SummaryLists : ExpertLossReturn(g, s)
    \/ \E t \in ExceptionTypes : ExpertLossRaise(t)
    \/ Combine
    \/ LogNotice
    \/ Return

Spec == Init /\ [][Next]_vars

----------------------------------------------------------------------------
(* Properties *)

Returned == result.kind = "return"

Failed == result.kind = "raise"

\* Notice records emitted since the current call of _make_loss started.
NoticesInCall ==
    {i \in (logAtEntry + 1)..Len(logRecords) : logRecords[i].level = "notice"}

Abs(x) == IF x < 0 THEN 0 - x ELSE x

\* C1: a call of _make_loss that returns, returns the loss a*b + l*g, where
\* a and l are the weights the object was configured with and b and g are
\* the losses the base-loss builder and the expert loss returned.
C1_Linearity ==
    Returned => result.loss = argAac * aac_loss + argGuided * guided_loss

C1_Witness ==
    /\ Returned
    /\ argAac = 3 /\ argGuided = 7
    /\ aac_loss = 1 /\ guided_loss = 1
    /\ result.loss = 10

\* C2: the returned summary list is the base summaries followed by the
\* expert summaries: the lengths add up, and every element keeps its place.
C2_SummariesConcatenated ==
    Returned =>
        /\ Len(result.summaries) = Len(baseReturned) + Len(guided_summary)
        /\ \A i \in 1..Len(baseReturned) : result.summaries[i] = baseReturned[i]
        /\ \A j \in 1..Len(guided_summary) :
              result.summaries[Len(baseReturned) + j] = guided_summary[j]

C2_Witness ==
    /\ Returned
    /\ baseReturned = <<"s1", "s2">>
    /\ guided_summary = <<"s2", "s1">>
    /\ result.summaries = <<"s1", "s2", "s2", "s1">>

\* C3: a loss whose weight is 0 does not influence the composed loss: with
\* aac_lambda = 0 the result is guided_lambda * expert loss whatever the
\* base loss is, and with guided_lambda = 0 it is aac_lambda * base loss
\* whatever the expert loss is.
C3_ZeroWeightIgnored ==
    Returned =>
        /\ aac_lambda = 0 =>
              /\ result.loss = guided_lambda * guided_loss
              /\ \A b \in Losses :
                    ComposeLoss(aac_lambda, b, guided_lambda, guided_loss)
                        = result.loss
        /\ guided_lambda = 0 =>
              /\ result.loss = aac_lambda * aac_loss
              /\ \A g \in Losses :
                    ComposeLoss(aac_lambda, aac_loss, guided_lambda, g)
                        = result.loss

C3_Witness ==
    /\ Returned
    /\ aac_lambda = 0 /\ aac_loss = 1
    /\ guided_lambda = 7 /\ guided_loss = 1
    /\ result.loss = 7

\* C4: when the expert loss raises inside the _make_loss call of the base
\* constructor's setup phase, __init__ never returns normally; it ends with
\* RuntimeError(FixedMsg), and the original exception is in the log before
\* that error is raised.
ExpertRaisedInCtor == caller = "ctor" /\ raised.origin = "expert_loss"

OriginalLogged ==
    \E i \in 1..Len(logRecords) :
        /\ logRecords[i].level = "exception"
        /\ logRecords[i].text = FixedMsg
        /\ logRecords[i].exc_info = raised

C4_ExpertFailureWrapped ==
    ExpertRaisedInCtor =>
        /\ pc \notin {"base_finish", "constructed"}
        /\ escaped.type \in {"none", "RuntimeError"}
        /\ pc = "line70" => OriginalLogged /\ escaped.type = "none"
        /\ pc = "ctor_failed" =>
              /\ escaped = [type |-> "RuntimeError", msg |-> FixedMsg]
              /\ OriginalLogged

C4_Witness ==
    /\ ExpertRaisedInCtor
    /\ argExpert = "raising_loss"
    /\ raised.type = "KeyboardInterrupt"
    /\ pc = "ctor_failed"
    /\ escaped.type = "RuntimeError"

\* C5: whatever is raised during construction, and wherever, __init__ ends
\* with RuntimeError(FixedMsg) after logging the original exception once.
C5_EveryFailureWrapped ==
    pc = "ctor_failed" =>
        /\ escaped = [type |-> "RuntimeError", msg |-> FixedMsg]
        /\ Cardinality({i \in 1..Len(logRecords) :
                           /\ logRecords[i].level = "exception"
                           /\ logRecords[i].exc_info = exc}) = 1

\* C6: an exception raised by the base-loss builder or by the expert loss
\* leaves _make_loss as the exception it was raised as; the call yields no
\* (loss, summaries) pair and calls neither callee a second time.
C6_FailurePropagatesUnchanged ==
    Failed =>
        /\ raised # NoExc
        /\ result.exc = raised
        /\ result.loss = NoResult.loss
        /\ result.summaries = NoResult.summaries
        /\ baseCalls = 1
        /\ Len(expertCalls) = (IF raised.origin = "expert_loss" THEN 1 ELSE 0)
        /\ pc = "except" => exc = raised

C6_Witness ==
    /\ Failed
    /\ caller = "direct"
    /\ pc = "constructed"
    /\ raised = [type |-> "ValueError", origin |-> "expert_loss"]
    /\ result.exc = raised

\* C7: a call of _make_loss that returns has called the base-loss builder
\* once and the configured expert loss once, with pi_actions = the local
\* network's on_logits, expert_actions = its expert_actions,
\* name = 'on_policy' and verbose = True.
C7_ExpertCalledOnce ==
    Returned =>
        /\ baseCalls = 1
        /\ Len(expertCalls) = 1
        /\ expertCalls[1] =
              [fn             |-> argExpert,
               pi_actions     |-> LocalNetwork.on_logits,
               expert_actions |-> LocalNetwork.expert_actions,
               name           |-> "on_policy",
               verbose        |-> TRUE]

C7_Witness ==
    /\ Returned
    /\ caller = "direct"
    /\ argExpert = "guided_aac_loss_def_0_1"
    /\ Len(expertCalls) = 1
    /\ expertCalls[1].fn = "guided_aac_loss_def_0_1"

\* C8 as stated: a call of _make_loss that returns has emitted exactly one
\* notice record, and the record carries the values of aac_lambda and
\* guided_lambda used for the returned loss.
C8_NoticeCarriesValues ==
    (pc = "line93" \/ Returned) =>
        /\ Cardinality(NoticesInCall) = 1
        /\ \A i \in NoticesInCall :
              /\ Parse(logRecords[i].args[1]) = aac_lambda
              /\ Parse(logRecords[i].args[2]) = guided_lambda

\* C8 (amended): a call of _make_loss that returns has emitted, before it
\* returns, exactly one notice record, and the record carries aac_lambda
\* and guided_lambda rounded to six fractional digits: each printed number
\* is within half a unit of the sixth digit of the weight that was used.
C8_NoticeCarriesRoundedValues ==
    (pc = "line93" \/ Returned) =>
        /\ Cardinality(NoticesInCall) = 1
        /\ \A i \in NoticesInCall :
              /\ logRecords[i].text = NoticeText
              /\ 2 * Abs(Parse(logRecords[i].args[1]) - aac_lambda) <= 10
              /\ 2 * Abs(Parse(logRecords[i].args[2]) - guided_lambda) <= 10
              /\ result.loss \in {NoResult.loss,
                    aac_lambda * aac_loss + guided_lambda * guided_loss}

C8_Witness ==
    /\ Returned
    /\ aac_lambda = 3 /\ guided_lambda = LambdaOne
    /\ Cardinality(NoticesInCall) = 1
    /\ \A i \in NoticesInCall :
          /\ logRecords[i].args[1] = [int |-> 0, frac |-> 0]
          /\ logRecords[i].args[2] = [int |-> 1, frac |-> 0]

\* C9: whenever _make_loss runs, the three attributes exist and hold the
\* constructor's arguments (1.0 for a lambda that was not passed, the
\* default loss for an expert loss that was not passed), from entry to
\* exit, and the loss built during construction uses those values.
C9_AttributesSetBeforeUse ==
    (InMakeLoss \/ pc = "ml_exit") =>
        /\ ParamNames \subseteq attrs
        /\ expert_loss = argExpert
        /\ aac_lambda = argAac
        /\ guided_lambda = argGuided
        /\ "expert_loss" \notin given => expert_loss = DefaultExpertLoss
        /\ "aac_lambda" \notin given => aac_lambda = LambdaOne
        /\ "guided_lambda" \notin given => guided_lambda = LambdaOne
        /\ (Returned /\ caller = "ctor") =>
              result.loss = argAac * aac_loss + argGuided * guided_loss

C9_Witness ==
    /\ pc = "ml_exit"
    /\ caller = "ctor"
    /\ Returned
    /\ given = {"aac_lambda"}
    /\ aac_lambda = 3
    /\ guided_lambda = LambdaOne
    /\ aac_loss = 1 /\ guided_loss = 1
    /\ result.loss = LambdaOne + 3

\* C10: inside one call of _make_loss the base-loss builder comes first,
\* then the expert loss, then the notice, then the return.  If the builder
\* raises, the expert loss is not called and nothing is logged; if the
\* expert loss raises, nothing is logged and the base summary list is as
\* the builder returned it.
C10_StepOrder ==
    /\ Len(expertCalls) > 0 => baseCalls = 1
    /\ NoticesInCall # {} =>
          /\ baseCalls = 1
          /\ Len(expertCalls) = 1
          /\ raised = NoExc
          /\ pc \in {"line93", "ml_exit", "base_finish", "constructed",
                     "except", "line70", "ctor_failed"}
    /\ Returned => Cardinality(NoticesInCall) = 1
    /\ raised.origin = "base_loss" =>
          /\ expertCalls = <<>>
          /\ NoticesInCall = {}
    /\ raised.origin = "expert_loss" =>
          /\ NoticesInCall = {}
          /\ summaries = baseReturned

C10_Witness ==
    /\ pc = "ml_exit"
    /\ raised.origin = "expert_loss"
    /\ baseReturned = <<"s1", "s2">>
    /\ summaries = <<"s1", "s2">>
    /\ NoticesInCall = {}

====
